---- MODULE Spec2Model ----
(***************************************************************************)
(* Model of download.py: the concurrent fetch / retry / aggregate pipeline *)
(* (fetch_article_data, process_batch, process_all_ids) followed by the    *)
(* export stage (generate_outputs).                                        *)
(*                                                                         *)
(* One run of process_all_ids is modelled.  The main thread walks through  *)
(* mainpc = "init" -> "submit" -> "collect" -> "export" -> "save_failed"   *)
(* -> "done".  Every batch is one future of the ThreadPoolExecutor; a pool *)
(* worker runs process_batch on it, one remote attempt per step.           *)
(***************************************************************************)
EXTENDS Integers, Sequences, FiniteSets, TLC

\* ------------------------------------------------------------------ bounds
\* Longest identifier list fed to process_all_ids.
MaxIds == 2
\* Largest value given to the BATCH_SIZE configuration.
MaxBatchSize == 2

\* --------------------------------------------------------- program constants
\* download.py:12
MAX_WORKERS == 5
\* download.py:17, the default of fetch_article_data's retries parameter
retries == 3
\* download.py:40, the base of the backoff delay 3 ** attempt
BackoffBase == 3

VARIABLES
    pm_ids,        \* the identifier list given to process_all_ids
    BATCH_SIZE,    \* the module-level configuration value (download.py:13)
    mainpc,        \* position of the main thread in process_all_ids
    futures,       \* futures[u]: the future of batch u, with its worker's position
    dataset,       \* lines of {prefix}id_information.json
    failed_ids,    \* the local list failed_ids of process_all_ids
    failed_file,   \* failed_ids.txt: <<>> when absent, else << lines >>
    pbar,          \* the progress counter of tqdm
    export,        \* what generate_outputs was given, has computed and has written
    attempts,      \* history: attempts[p] = how each attempt made for position p ended
    sleeps,        \* history: sleeps[p] = the delays slept while fetching position p
    outcome,       \* history: outcome[p] = what fetch_article_data returned for position p
    submits,       \* history: submits[u] = executor.submit calls for batch u
    produced,      \* history: produced[u] = results set on the future of batch u
    consumed,      \* history: consumed[u] = loop bodies run for the future of batch u
    writes,        \* history: the physical writes to files, <<thread, file, unit>>
    crawl          \* crawl.py: the state of its main(), "off" while download.py runs

vars == <<pm_ids, BATCH_SIZE, mainpc, futures, dataset, failed_ids,
          failed_file, pbar, export, attempts, sleeps, outcome, submits,
          produced, consumed, writes, crawl>>

\* ------------------------------------------------------------ data values
\* Python's None where a string is expected.
None == "None"

\* The identifiers of a run: opaque tokens.
IdPool == <<"A1", "A2", "A3", "A4", "A5", "A6", "A7", "A8">>

\* The first n tokens of the pool: a list without duplicates.
Prefix(n) == SubSeq(IdPool, 1, n)

\* The identifier lists of the model: every length up to MaxIds, without
\* duplicates and with the first identifier repeated at the end (the caller does
\* not promise unique identifiers; the tokens themselves carry no meaning).
InputLists ==
    {Prefix(n) : n \in 0..MaxIds}
    \cup {Append(Prefix(n - 1), IdPool[1]) : n \in 2..MaxIds}

\* What the remote service holds for an identifier, as pubmed_mapper's Article
\* presents it: abstract is <<>> for None and <<text>> otherwise, a text being a
\* sequence of words; ids is the list of (id_type, id_value) objects.
ArticleKinds ==
    { [abstract |-> << <<"code", "on", "Github">> >>,
       ids |-> << [id_type |-> "doi", id_value |-> "10.1/x"],
                  [id_type |-> "pmc", id_value |-> "PMC1"] >>],
      [abstract |-> << <<"plain", "text">> >>,
       ids |-> << [id_type |-> "doi", id_value |-> "10.1/y"] >>],
      [abstract |-> <<>>,
       ids |-> << [id_type |-> "doi", id_value |-> "10.1/z"],
                  [id_type |-> "pmc", id_value |-> "PMC3"] >>],
      [abstract |-> << <<"plain", "text">> >>,
       ids |-> << [id_type |-> "pmc", id_value |-> "PMC4"] >>] }

\* A record of the dataset left by an earlier run.
StaleRecord == [pub_id |-> "OLD", doi |-> "10.1/old", pmc_id |-> None,
                abstract |-> <<"old">>]

NoRecord == [pub_id |-> "", doi |-> None, pmc_id |-> None, abstract |-> <<>>]

\* What fetch_article_data handed back for one identifier: nothing yet, the
\* record, None after the last error (which is printed), or that error itself
\* when it left the function.
Pending == [status |-> "pending", record |-> NoRecord, error |-> ""]
Success(data) == [status |-> "Success", record |-> data, error |-> ""]
Failure(cause) == [status |-> "Failure", record |-> NoRecord, error |-> cause]
Raised(cause) == [status |-> "Raised", record |-> NoRecord, error |-> cause]

\* ------------------------------------------------------- fetch_article_data
\* next((id_obj.id_value for id_obj in ids if id_obj.id_type == t), None)
RECURSIVE FirstIdValue(_, _)
FirstIdValue(ids, t) ==
    IF ids = <<>> THEN None
    ELSE IF Head(ids).id_type = t THEN Head(ids).id_value
    ELSE FirstIdValue(Tail(ids), t)

\* article.abstract or ""
AbstractOrEmpty(article) ==
    IF article.abstract = <<>> THEN <<>> ELSE article.abstract[1]

\* The dict returned by a successful attempt (the fields the pipeline reads).
MakeRecord(pmid, article) ==
    [pub_id   |-> pmid,
     doi      |-> FirstIdValue(article.ids, "doi"),
     pmc_id   |-> FirstIdValue(article.ids, "pmc"),
     abstract |-> AbstractOrEmpty(article)]

\* Faulty variant of OnException: the budget is counted one attempt short.
OnExceptionOneShort(attempt, cause) ==
    IF attempt < retries - 2 THEN "sleep" ELSE "return_none"

\* Faulty variant of OnException: the last error is raised again.
OnExceptionReraise(attempt, cause) ==
    IF attempt < retries - 1 THEN "sleep" ELSE "raise"

\* Faulty variant of OnException: only errors of the remote lookup are caught.
OnExceptionRemoteOnly(attempt, cause) ==
    IF cause # "remote" THEN "raise"
    ELSE IF attempt < retries - 1 THEN "sleep" ELSE "return_none"

\* Faulty variant of OnException: there is no except clause.
OnExceptionUncaught(attempt, cause) == "raise"

\* except Exception: what the handler does after a failed attempt, whatever raised.
OnException(attempt, cause) ==
    IF attempt < retries - 1 THEN "sleep" ELSE "return_none"

\* Faulty variant of Backoff: the attempt is counted from 1.
BackoffFromOne(attempt) == BackoffBase ^ (attempt + 1)

\* time.sleep(3 ** attempt)
Backoff(attempt) == BackoffBase ^ attempt

\* ------------------------------------------------------------ process_batch
\* Faulty variant of Usable: the doi is not looked at.
UsableAbstractOnly(article_data) ==
    article_data.abstract # <<>>

\* article_data["abstract"] and article_data["doi"], for a record that is not None
Usable(article_data) ==
    /\ article_data.abstract # <<>>
    /\ article_data.doi # None
    /\ article_data.doi # ""

\* ---------------------------------------------------------- process_all_ids
Min(a, b) == IF a < b THEN a ELSE b

\* [pm_ids[i:i+BATCH_SIZE] for i in range(0, len(pm_ids), BATCH_SIZE)]
Batches(ids, size) ==
    [u \in 1..((Len(ids) + size - 1) \div size) |->
        SubSeq(ids, (u - 1) * size + 1, Min(u * size, Len(ids)))]

batches == Batches(pm_ids, BATCH_SIZE)
Units == 1..Len(batches)
Positions == 1..Len(pm_ids)

\* The position in pm_ids of the i-th identifier of batch u.
PosOf(u, i) == (u - 1) * BATCH_SIZE + i

\* Faulty variant of AppendLines: the file is opened with "w".
AppendLinesTruncating(file, results) == results

\* with open(json_file, "a") ...: for result in results: f.write(line)
AppendLines(file, results) == file \o results

\* Faulty variant of Extend: append of the first identifier in place of extend.
ExtendByFirst(list, batch) == Append(list, batch[1])

\* failed_ids.extend(current_batch)
Extend(list, batch) == list \o batch

\* Faulty variant of Route: the else branch is never taken.
RouteAlwaysWrite(results) == "write"

\* The branch of the collecting loop: "write" the results or "fail" the batch.
Route(results) == IF results # <<>> THEN "write" ELSE "fail"

\* ---------------------------------------------------------- generate_outputs
\* Words of an abstract in which "ithub" or "avaliable" occurs as a substring
\* (the test is case-sensitive: "GITHUB" and "available" do not match).
LinkWords == {"Github", "github", "avaliable"}

\* "ithub" in abstract or "avaliable" in abstract
has_github_link(abstract) ==
    \E k \in 1..Len(abstract) : abstract[k] \in LinkWords

\* The rendered block of one record (the fields of the template the model keeps).
format_article_markdown(data) ==
    <<"####", data.pub_id, data.doi, data.abstract>>

\* Faulty variant of NoPmc: the append to no_pmcids has lost its else.
NoPmcUnconditional(article) == TRUE

\* if article['pmc_id'] and its else branch
HasPmc(article) == article.pmc_id # None /\ article.pmc_id # ""
NoPmc(article) == ~ HasPmc(article)

\* if has_github_link(article['abstract']) and its else branch
HasLink(article) == has_github_link(article.abstract)
NoLink(article) == ~ HasLink(article)

\* The lists built by the loop over the articles read back from the dataset.
Classify(articles, link) ==
    [pmcids           |-> [k \in 1..Len(SelectSeq(articles, HasPmc)) |->
                              SelectSeq(articles, HasPmc)[k].pmc_id],
     no_pmcids        |-> SelectSeq(articles, NoPmc),
     all_md           |-> [k \in 1..Len(articles) |-> format_article_markdown(articles[k])],
     link_articles    |-> IF link THEN SelectSeq(articles, HasLink) ELSE <<>>,
     no_link_articles |-> IF link THEN SelectSeq(articles, NoLink) ELSE <<>>]

\* The files generate_outputs writes, in the order it writes them.
OutputFiles(link) ==
    <<"pmcids.txt", "no_pmcids.json", "id_information.md", "id_information.html">>
    \o (IF link
        THEN <<"link_id_information.json", "link_id_information.md",
               "link_id_information.html", "no_link_id_information.json",
               "no_link_id_information.md", "no_link_id_information.html">>
        ELSE <<>>)

NoViews == Classify(<<>>, FALSE)

\* Faulty variant of ExportResult: the output files are opened with "a", so what
\* an earlier call wrote stays in front of the new content.
ExportResultAppending(old, articles, link) ==
    [status |-> "ok", select_link |-> link, files |-> OutputFiles(link),
     views |-> [f \in DOMAIN Classify(articles, link) |->
                   old.views[f] \o Classify(articles, link)[f]]]

\* What a complete call of generate_outputs leaves in the output files: every
\* file is opened with "w", so the old content (old) is replaced.
ExportResult(old, articles, link) ==
    [status |-> "ok", select_link |-> link, files |-> OutputFiles(link),
     views |-> Classify(articles, link)]

\* Faulty variant of ReadBack: the dataset file is opened with "w".
ReadBackTruncating(file) == <<>>

\* The dataset file after generate_outputs used it: it is opened with "r" only.
ReadBack(file) == file

\* ------------------------------------------------------------------- Init
\* search_config.json as load_config finds it: file is "ok" when it can be read
\* and parsed, else "missing", "invalid" (not JSON) or "unreadable"; keys are the
\* members of the parsed object, and a member that is not there has the value
\* config.get gives for it.
NullValue == "null"
NoConfig == [file |-> "none", keys |-> {}, search_keywords |-> <<>>, email |-> "",
             NCBI_api |-> "", mindate |-> None, maxdate |-> None]

\* crawl.py is not running.
CrawlOff == [pc |-> "off", config |-> NoConfig, reported |-> FALSE, requests |-> 0,
             all_ids |-> <<>>, ids_file |-> <<>>]

NewFuture == [state |-> "unsubmitted", i |-> 1, attempt |-> 0,
              results |-> <<>>, raised |-> FALSE]

Init ==
    /\ pm_ids \in InputLists
    /\ BATCH_SIZE \in 1..MaxBatchSize
    /\ mainpc = "init"
    /\ futures = [u \in Units |-> NewFuture]
    /\ dataset \in {<<>>, <<StaleRecord>>}
    /\ failed_ids = <<>>
    /\ failed_file = <<>>
    /\ pbar = 0
    /\ export = [status |-> "none", select_link |-> TRUE, files |-> <<>>,
                 views |-> NoViews]
    /\ attempts = [p \in Positions |-> <<>>]
    /\ sleeps = [p \in Positions |-> <<>>]
    /\ outcome = [p \in Positions |-> Pending]
    /\ submits = [u \in Units |-> 0]
    /\ produced = [u \in Units |-> 0]
    /\ consumed = [u \in Units |-> 0]
    /\ writes = <<>>
    /\ crawl = CrawlOff

\* ------------------------------------------------------------ main thread
\* Faulty variant of WriteEmpty: the file is opened with "a".
WriteEmptyAppending(file) == file

\* with open(json_file, 'w') as f: f.write(""), whatever the file held
WriteEmpty(file) == <<>>

InitOutputFile ==
    /\ mainpc = "init"
    /\ dataset' = WriteEmpty(dataset)
    /\ mainpc' = "submit"
    /\ UNCHANGED <<crawl, pm_ids, BATCH_SIZE, futures, failed_ids, failed_file,
                   pbar, export, attempts, sleeps, outcome, submits, produced,
                   consumed, writes>>

\* One executor.submit(process_batch, batch) of the list comprehension.
Submit(u) ==
    /\ mainpc = "submit"
    /\ futures[u].state = "unsubmitted"
    /\ \A v \in Units : v < u => futures[v].state # "unsubmitted"
    /\ futures' = [futures EXCEPT ![u].state = "pending"]
    /\ submits' = [submits EXCEPT ![u] = @ + 1]
    /\ UNCHANGED <<crawl, pm_ids, BATCH_SIZE, mainpc, dataset, failed_ids,
                   failed_file, pbar, export, attempts, sleeps, outcome, produced,
                   consumed, writes>>

\* The list of futures is complete: the loop over as_completed starts.
StartCollect ==
    /\ mainpc = "submit"
    /\ \A u \in Units : futures[u].state # "unsubmitted"
    /\ mainpc' = "collect"
    /\ UNCHANGED <<crawl, pm_ids, BATCH_SIZE, futures, dataset, failed_ids,
                   failed_file, pbar, export, attempts, sleeps, outcome, submits,
                   produced, consumed, writes>>

\* ------------------------------------------------------------ pool workers
\* Faulty variant of Running: a thread in time.sleep is taken to be free.
RunningAwakeOnly == {u \in Units : futures[u].state = "running"}

\* Futures a worker thread is busy with.
Running == {u \in Units : futures[u].state \in {"running", "sleeping"}}

\* A pool thread takes the oldest queued work item; the pool has MAX_WORKERS threads.
StartBatch(u) ==
    /\ futures[u].state = "pending"
    /\ \A v \in Units : v < u => futures[v].state # "pending"
    /\ Cardinality(Running) < MAX_WORKERS
    /\ futures' = [futures EXCEPT ![u].state = "running"]
    /\ UNCHANGED <<crawl, pm_ids, BATCH_SIZE, mainpc, dataset, failed_ids,
                   failed_file, pbar, export, attempts, sleeps, outcome, submits,
                   produced, consumed, writes>>

\* process_batch after fetch_article_data returned for its i-th identifier: the
\* next identifier, or `return results, batch` which completes the future.
AfterFetch(f, u, results) ==
    IF f.i < Len(batches[u])
    THEN [f EXCEPT !.i = @ + 1, !.attempt = 0, !.results = results, !.state = "running"]
    ELSE [f EXCEPT !.results = results, !.state = "finished"]

Completes(f, u) == f.i = Len(batches[u])

\* One attempt whose try block runs to its return: the record is returned and
\* process_batch keeps it when it is usable.
AttemptSucceeds(u, article) ==
    /\ futures[u].state = "running"
    /\ futures[u].attempt < retries
    /\ LET f    == futures[u]
           p    == PosOf(u, f.i)
           data == MakeRecord(batches[u][f.i], article)
           res  == IF Usable(data) THEN Append(f.results, data) ELSE f.results
       IN  /\ attempts' = [attempts EXCEPT ![p] = Append(@, "ok")]
           /\ outcome' = [outcome EXCEPT ![p] = Success(data)]
           /\ futures' = [futures EXCEPT ![u] = AfterFetch(f, u, res)]
           /\ produced' = [produced EXCEPT ![u] = IF Completes(f, u) THEN @ + 1 ELSE @]
    /\ UNCHANGED <<crawl, pm_ids, BATCH_SIZE, mainpc, dataset, failed_ids,
                   failed_file, pbar, export, sleeps, submits, consumed, writes>>

\* Where an attempt can raise: the remote lookup or the normalization after it.
ErrorCauses == {"remote", "normalize"}

\* One attempt that raises: the except clause sleeps and retries, or gives up.
AttemptFails(u, cause) ==
    /\ futures[u].state = "running"
    /\ futures[u].attempt < retries
    /\ LET f == futures[u]
           p == PosOf(u, f.i)
           h == OnException(f.attempt, cause)
       IN  /\ attempts' = [attempts EXCEPT ![p] = Append(@, "error")]
           /\ CASE h = "sleep" ->
                    /\ futures' = [futures EXCEPT ![u].state = "sleeping"]
                    /\ sleeps' = [sleeps EXCEPT ![p] = Append(@, Backoff(f.attempt))]
                    /\ UNCHANGED <<outcome, produced>>
                [] h = "return_none" ->
                    /\ outcome' = [outcome EXCEPT ![p] = Failure(cause)]
                    /\ futures' = [futures EXCEPT ![u] = AfterFetch(f, u, f.results)]
                    /\ produced' = [produced EXCEPT ![u] =
                                       IF Completes(f, u) THEN @ + 1 ELSE @]
                    /\ UNCHANGED sleeps
                [] OTHER ->
                    \* an exception leaving fetch_article_data leaves process_batch
                    \* too and is stored in the future
                    /\ outcome' = [outcome EXCEPT ![p] = Raised(cause)]
                    /\ futures' = [futures EXCEPT ![u].state = "finished",
                                                  ![u].raised = TRUE]
                    /\ produced' = [produced EXCEPT ![u] = @ + 1]
                    /\ UNCHANGED sleeps
    /\ UNCHANGED <<crawl, pm_ids, BATCH_SIZE, mainpc, dataset, failed_ids,
                   failed_file, pbar, export, submits, consumed, writes>>

\* time.sleep returns: the for loop takes the next attempt; when range(retries)
\* is used up the function falls through to its last line, return None.
Wake(u) ==
    /\ futures[u].state = "sleeping"
    /\ LET f == futures[u]
           p == PosOf(u, f.i)
       IN  IF f.attempt + 1 < retries
           THEN /\ futures' = [futures EXCEPT ![u].state = "running",
                                              ![u].attempt = @ + 1]
                /\ UNCHANGED <<outcome, produced>>
           ELSE /\ outcome' = [outcome EXCEPT ![p] = Failure("")]
                /\ futures' = [futures EXCEPT ![u] = AfterFetch(f, u, f.results)]
                /\ produced' = [produced EXCEPT ![u] =
                                   IF Completes(f, u) THEN @ + 1 ELSE @]
    /\ UNCHANGED <<crawl, pm_ids, BATCH_SIZE, mainpc, dataset, failed_ids,
                   failed_file, pbar, export, attempts, sleeps, submits,
                   consumed, writes>>

\* ------------------------------------------------- main thread, continued
\* One body of `for future in as_completed(futures)`: a finished future not yet
\* yielded is taken, its results are appended to the dataset file or its batch is
\* added to failed_ids, and the progress bar advances.  future.result() raises
\* what the worker raised, which leaves process_all_ids.
Collect(u) ==
    /\ mainpc = "collect"
    /\ futures[u].state = "finished"
    /\ consumed[u] = 0
    /\ consumed' = [consumed EXCEPT ![u] = @ + 1]
    /\ IF futures[u].raised
       THEN /\ mainpc' = "raised"
            /\ UNCHANGED <<dataset, failed_ids, pbar, writes>>
       ELSE /\ IF Route(futures[u].results) = "write"
               THEN /\ dataset' = AppendLines(dataset, futures[u].results)
                    /\ writes' = Append(writes, <<"main", "dataset", u>>)
                    /\ UNCHANGED failed_ids
               ELSE /\ failed_ids' = Extend(failed_ids, batches[u])
                    /\ UNCHANGED <<dataset, writes>>
            /\ pbar' = pbar + 1
            /\ UNCHANGED mainpc
    /\ UNCHANGED <<crawl, pm_ids, BATCH_SIZE, futures, failed_file, export,
                   attempts, sleeps, outcome, submits, produced>>

\* Faulty variant of LoopExhausted: the loop is left after its first body.
LoopExhaustedEarly == \E u \in Units : consumed[u] > 0

\* as_completed(futures) has yielded every future.
LoopExhausted == \A u \in Units : consumed[u] > 0

\* as_completed is exhausted and the executor's with block has been left.
FinishCollect ==
    /\ mainpc = "collect"
    /\ LoopExhausted
    /\ mainpc' = "export"
    /\ UNCHANGED <<crawl, pm_ids, BATCH_SIZE, futures, dataset, failed_ids,
                   failed_file, pbar, export, attempts, sleeps, outcome, submits,
                   produced, consumed, writes>>

\* generate_outputs(prefix, select_link) runs to its end: the dataset is read
\* back, classified and rendered, and every output file is written.  select_link
\* is an argument of process_all_ids that nothing reads before this call.
GenerateOutputs(link) ==
    /\ mainpc = "export"
    /\ export' = ExportResult(export, dataset, link)
    /\ dataset' = ReadBack(dataset)
    /\ mainpc' = "save_failed"
    /\ UNCHANGED <<crawl, pm_ids, BATCH_SIZE, futures, failed_ids,
                   failed_file, pbar, attempts, sleeps, outcome, submits,
                   produced, consumed, writes>>

\* What the except clause around generate_outputs does: print and return.
OnExportError == "return"

\* The places where generate_outputs is made to raise, as the number of files
\* written before: reading or rendering (none), after pmcids.txt, and after the
\* four files that do not depend on select_link.
FailPoints == {0, 1, 4}

\* generate_outputs raises (reading, rendering or writing) after n of its files
\* were written; process_all_ids handles the exception.
GenerateOutputsFails(link, n) ==
    /\ mainpc = "export"
    /\ n < Len(OutputFiles(link))
    /\ export' = [status |-> "error", select_link |-> link,
                  files |-> SubSeq(OutputFiles(link), 1, n), views |-> NoViews]
    /\ dataset' = ReadBack(dataset)
    /\ mainpc' = IF OnExportError = "return" THEN "done" ELSE "save_failed"
    /\ UNCHANGED <<crawl, pm_ids, BATCH_SIZE, futures, failed_ids,
                   failed_file, pbar, attempts, sleeps, outcome, submits,
                   produced, consumed, writes>>

\* if failed_ids: write "\n".join(failed_ids) to failed_ids.txt
SaveFailed ==
    /\ mainpc = "save_failed"
    /\ IF failed_ids # <<>>
       THEN /\ failed_file' = <<failed_ids>>
            /\ writes' = Append(writes, <<"main", "failed_ids.txt", 0>>)
       ELSE UNCHANGED <<failed_file, writes>>
    /\ mainpc' = "done"
    /\ UNCHANGED <<crawl, pm_ids, BATCH_SIZE, futures, dataset, failed_ids,
                   pbar, export, attempts, sleeps, outcome, submits, produced,
                   consumed>>

\* ------------------------------------------------------------ specification
Next ==
    \/ InitOutputFile
    \/ \E u \in Units : Submit(u)
    \/ StartCollect
    \/ \E u \in Units : StartBatch(u)
    \/ \E u \in Units, article \in ArticleKinds : AttemptSucceeds(u, article)
    \/ \E u \in Units, cause \in ErrorCauses : AttemptFails(u, cause)
    \/ \E u \in Units : Wake(u)
    \/ \E u \in Units : Collect(u)
    \/ FinishCollect
    \/ \E link \in BOOLEAN : GenerateOutputs(link)
    \/ \E link \in BOOLEAN, n \in FailPoints : GenerateOutputsFails(link, n)
    \/ SaveFailed

Spec == Init /\ [][Next]_vars

\* The run under a fair scheduler with a remote service that answers or fails
\* every request: a thread that can take a step takes one in the end.
LiveSpec == Spec /\ WF_vars(Next)

\* ------------------------------------------- specification: the two programs
\* from their first statement: crawl.py's main() and download.py's __main__ block
ConfigKeys == {"search_keywords", "email", "NCBI_api", "mindate", "maxdate"}

\* The parsed objects of the model: any subset of the members main() reads, one
\* or two keywords, NCBI_api a string or null.
ParsedConfigs ==
    { [file |-> "ok", keys |-> ks,
       search_keywords |-> IF "search_keywords" \in ks THEN kw ELSE <<>>,
       email |-> IF "email" \in ks THEN "a@b.org" ELSE "",
       NCBI_api |-> IF "NCBI_api" \in ks THEN api ELSE "",
       mindate |-> IF "mindate" \in ks THEN "2020" ELSE None,
       maxdate |-> IF "maxdate" \in ks THEN "2024" ELSE None] :
        ks \in SUBSET ConfigKeys,
        kw \in { <<"k1">>, <<"k1", "k2">> },
        api \in { "KEY", NullValue } }

ConfigFiles ==
    ParsedConfigs
    \cup { [NoConfig EXCEPT !.file = e] : e \in {"missing", "invalid", "unreadable"} }

\* What esearch returns for a keyword (an error is printed and gives []).
SearchResults == { <<>>, <<"P1">>, <<"P1", "P2">> }

\* pubmed_ids.txt as left by an earlier run of crawl.py.
OldIdsFile == << <<"OLD">> >>

\* The orders list(set(all_ids)) can come out in.
RECURSIVE Orders(_)
Orders(S) ==
    IF S = {} THEN { <<>> }
    ELSE UNION { { <<x>> \o rest : rest \in Orders(S \ {x}) } : x \in S }

StartupInit ==
    /\ \/ /\ mainpc = "start"
          /\ pm_ids \in InputLists
          /\ BATCH_SIZE \in 1..MaxBatchSize
          /\ dataset \in {<<>>, <<StaleRecord>>}
          /\ crawl = CrawlOff
       \/ /\ mainpc = "off"
          /\ pm_ids = <<>>
          /\ BATCH_SIZE = 1
          /\ dataset = <<>>
          /\ crawl \in { [CrawlOff EXCEPT !.pc = "start", !.config = c, !.ids_file = old] :
                           c \in ConfigFiles, old \in {<<>>, OldIdsFile} }
    /\ futures = [u \in Units |-> NewFuture]
    /\ failed_ids = <<>>
    /\ failed_file = <<>>
    /\ pbar = 0
    /\ export = [status |-> "none", select_link |-> TRUE, files |-> <<>>,
                 views |-> NoViews]
    /\ attempts = [p \in Positions |-> <<>>]
    /\ sleeps = [p \in Positions |-> <<>>]
    /\ outcome = [p \in Positions |-> Pending]
    /\ submits = [u \in Units |-> 0]
    /\ produced = [u \in Units |-> 0]
    /\ consumed = [u \in Units |-> 0]
    /\ writes = <<>>

\* download.py: with open(input_file) as f: pm_ids = [...]; the file holds pm_ids
\* when it can be read, else open raises and nothing catches it.
ReadIdentifiers(readable) ==
    /\ mainpc = "start"
    /\ mainpc' = IF readable THEN "init" ELSE "input_error"
    /\ UNCHANGED <<crawl, pm_ids, BATCH_SIZE, futures, dataset, failed_ids,
                   failed_file, pbar, export, attempts, sleeps, outcome, submits,
                   produced, consumed, writes>>

DownloadVars == <<pm_ids, BATCH_SIZE, mainpc, futures, dataset, failed_ids,
                  failed_file, pbar, export, attempts, sleeps, outcome, submits,
                  produced, consumed, writes>>

\* config = load_config(); if not config: return
LoadConfig ==
    /\ crawl.pc = "start"
    /\ crawl' = IF crawl.config.file # "ok"
                THEN [crawl EXCEPT !.reported = TRUE, !.pc = "returned"]
                ELSE IF crawl.config.keys = {}
                THEN [crawl EXCEPT !.pc = "returned"]
                ELSE [crawl EXCEPT !.pc = "settings"]
    /\ UNCHANGED DownloadVars

\* The five config.get lines: .strip() on a null NCBI_api raises AttributeError,
\* which leaves main() and ends the program with a traceback.
ReadSettings ==
    /\ crawl.pc = "settings"
    /\ crawl' = IF crawl.config.NCBI_api = NullValue
                THEN [crawl EXCEPT !.reported = TRUE, !.pc = "raised"]
                ELSE [crawl EXCEPT !.pc = "validate"]
    /\ UNCHANGED DownloadVars

\* The three validation tests, each printing its error and returning.
Validate ==
    /\ crawl.pc = "validate"
    /\ crawl' = IF \/ crawl.config.search_keywords = <<>>
                   \/ crawl.config.email = ""
                   \/ crawl.config.mindate = None
                   \/ crawl.config.maxdate = None
                THEN [crawl EXCEPT !.reported = TRUE, !.pc = "returned"]
                ELSE [crawl EXCEPT !.pc = "search"]
    /\ UNCHANGED DownloadVars

\* One turn of the loop over the keywords: search_pubmed issues one request and
\* returns the ids found, [] after any error.
SearchKeyword(ids) ==
    /\ crawl.pc = "search"
    /\ crawl.requests < Len(crawl.config.search_keywords)
    /\ crawl' = [crawl EXCEPT !.requests = @ + 1, !.all_ids = @ \o ids]
    /\ UNCHANGED DownloadVars

\* unique_ids = list(set(all_ids)) written to pubmed_ids.txt
SaveIds(order) ==
    /\ crawl.pc = "search"
    /\ crawl.requests = Len(crawl.config.search_keywords)
    /\ crawl' = [crawl EXCEPT !.ids_file = <<order>>, !.pc = "done"]
    /\ UNCHANGED DownloadVars

StartupNext ==
    \/ \E readable \in BOOLEAN : ReadIdentifiers(readable)
    \/ Next
    \/ LoadConfig
    \/ ReadSettings
    \/ Validate
    \/ \E ids \in SearchResults : SearchKeyword(ids)
    \/ \E order \in Orders({crawl.all_ids[k] : k \in 1..Len(crawl.all_ids)}) :
          SaveIds(order)

StartupSpec == StartupInit /\ [][StartupNext]_vars

\* ------------------------------- specification: the run with failing writes
\* The body of the collecting loop when open(json_file, "a") or one of its
\* writes raises after k lines of the unit: nothing catches the error in the
\* loop, so it leaves process_all_ids through the two with blocks (the
\* executor's exit lets the workers finish what was submitted).
CollectWriteFails(u, k) ==
    /\ mainpc = "collect"
    /\ futures[u].state = "finished"
    /\ consumed[u] = 0
    /\ ~ futures[u].raised
    /\ Route(futures[u].results) = "write"
    /\ k < Len(futures[u].results)
    /\ consumed' = [consumed EXCEPT ![u] = @ + 1]
    /\ dataset' = AppendLines(dataset, SubSeq(futures[u].results, 1, k))
    /\ writes' = Append(writes, <<"main", "dataset_error", u>>)
    /\ mainpc' = "write_error"
    /\ UNCHANGED <<crawl, pm_ids, BATCH_SIZE, futures, failed_ids, failed_file,
                   pbar, export, attempts, sleeps, outcome, submits, produced>>

IONext ==
    \/ Next
    \/ \E u \in Units, k \in 0..(MaxBatchSize - 1) : CollectWriteFails(u, k)

IOSpec == Init /\ [][IONext]_vars

\* ------------------------------------ specification: more units than workers
\* The fetch phase of a run with ExtraUnits more batches than the pool has
\* threads, every batch one identifier, the remote service failing the first
\* attempt of every fetch and answering the second with PoolArticle.
ExtraUnits == 1

PoolArticle ==
    [abstract |-> << <<"code", "on", "Github">> >>,
     ids |-> << [id_type |-> "doi", id_value |-> "10.1/x"],
                [id_type |-> "pmc", id_value |-> "PMC1"] >>]

PoolInit ==
    /\ pm_ids = Prefix(MAX_WORKERS + ExtraUnits)
    /\ BATCH_SIZE = 1
    /\ mainpc = "init"
    /\ futures = [u \in Units |-> NewFuture]
    /\ dataset = <<>>
    /\ failed_ids = <<>>
    /\ failed_file = <<>>
    /\ pbar = 0
    /\ export = [status |-> "none", select_link |-> TRUE, files |-> <<>>,
                 views |-> NoViews]
    /\ attempts = [p \in Positions |-> <<>>]
    /\ sleeps = [p \in Positions |-> <<>>]
    /\ outcome = [p \in Positions |-> Pending]
    /\ submits = [u \in Units |-> 0]
    /\ produced = [u \in Units |-> 0]
    /\ consumed = [u \in Units |-> 0]
    /\ writes = <<>>
    /\ crawl = CrawlOff

PoolNext ==
    \/ InitOutputFile
    \/ \E u \in Units : Submit(u)
    \/ StartCollect
    \/ \E u \in Units : StartBatch(u)
    \/ \E u \in Units : futures[u].attempt = 0 /\ AttemptFails(u, "remote")
    \/ \E u \in Units : futures[u].attempt > 0 /\ AttemptSucceeds(u, PoolArticle)
    \/ \E u \in Units : Wake(u)
    \/ \E u \in Units : Collect(u)
    \/ FinishCollect

PoolSpec == PoolInit /\ [][PoolNext]_vars

\* ------------------------------------------- specification: the export alone
\* generate_outputs applied to every dataset of up to MaxRecords usable records,
\* each record with or without a pmc id and with or without a link word.
MaxRecords == 2

UsableArticles ==
    { [abstract |-> << text >>, ids |-> idlist] :
        text \in { <<"code", "on", "Github">>, <<"plain", "text">> },
        idlist \in { << [id_type |-> "doi", id_value |-> "10.1/x"],
                        [id_type |-> "pmc", id_value |-> "PMC1"] >>,
                     << [id_type |-> "doi", id_value |-> "10.1/y"] >> } }

\* The dataset files a fetch phase can leave: record k comes from identifier k.
Datasets ==
    UNION { { [k \in 1..n |-> MakeRecord(IdPool[k], f[k])] :
                f \in [1..n -> UsableArticles] } : n \in 0..MaxRecords }

\* process_all_ids at the call of generate_outputs, after a fetch phase in which
\* every identifier was its own batch, was fetched at the first attempt and was
\* collected in the order of submission.
ExportInit ==
    /\ dataset \in Datasets
    /\ pm_ids = Prefix(Len(dataset))
    /\ BATCH_SIZE = 1
    /\ mainpc = "export"
    /\ futures = [u \in Units |->
                     [NewFuture EXCEPT !.state = "finished", !.results = <<dataset[u]>>]]
    /\ failed_ids = <<>>
    /\ failed_file = <<>>
    /\ pbar = Len(dataset)
    /\ export = [status |-> "none", select_link |-> TRUE, files |-> <<>>,
                 views |-> NoViews]
    /\ attempts = [p \in Positions |-> <<"ok">>]
    /\ sleeps = [p \in Positions |-> <<>>]
    /\ outcome = [p \in Positions |-> Success(dataset[p])]
    /\ submits = [u \in Units |-> 1]
    /\ produced = [u \in Units |-> 1]
    /\ consumed = [u \in Units |-> 1]
    /\ writes = [u \in 1..Len(dataset) |-> <<"main", "dataset", u>>]
    /\ crawl = CrawlOff

\* The calls of generate_outputs made on one dataset, the first one included.
MaxCalls == 2

\* A caller of the module calls generate_outputs once more on the files a
\* complete call has left; the call is noted in the history of writes.
GenerateOutputsAgain(link) ==
    /\ mainpc = "done"
    /\ export.status = "ok"
    /\ Cardinality({k \in 1..Len(writes) : writes[k][2] = "outputs"}) < MaxCalls - 1
    /\ export' = ExportResult(export, dataset, link)
    /\ dataset' = ReadBack(dataset)
    /\ writes' = Append(writes, <<"caller", "outputs", 0>>)
    /\ UNCHANGED <<crawl, pm_ids, BATCH_SIZE, mainpc, futures, failed_ids,
                   failed_file, pbar, attempts, sleeps, outcome, submits,
                   produced, consumed>>

ExportNext ==
    \/ \E link \in BOOLEAN : GenerateOutputs(link)
    \/ \E link \in BOOLEAN, n \in FailPoints : GenerateOutputsFails(link, n)
    \/ SaveFailed
    \/ \E link \in BOOLEAN : GenerateOutputsAgain(link)

ExportSpec == ExportInit /\ [][ExportNext]_vars

\* ------------------------------------------------------- properties: helpers
Range(s) == {s[k] : k \in 1..Len(s)}

\* How many times x occurs in the sequence s.
Count(s, x) == Cardinality({k \in 1..Len(s) : s[k] = x})

\* The fetch phase is over: every future was consumed and the executor left.
FetchDone == mainpc \in {"export", "save_failed", "done"}

\* The usability filter as the specification words it: a non-empty abstract and
\* a non-empty doi.
PassesFilter(r) == r.abstract # <<>> /\ r.doi \notin {None, ""}

\* Positions whose fetch returned a record that passes the filter.
UsablePositions ==
    {p \in Positions : outcome[p].status = "Success" /\ PassesFilter(outcome[p].record)}

\* ------------------------------------------------------------------------ C1
\* C1: after the fetch phase the dataset holds exactly the records of the
\* identifiers whose fetch returned a record with a non-empty abstract and a
\* non-empty doi: every line is such a record, every such record is a line (as
\* often as it was fetched), and an identifier has a line iff one of its fetches
\* returned such a record.
C1_DatasetIffUsableSuccess ==
    FetchDone =>
        /\ \A k \in 1..Len(dataset) :
               \E p \in UsablePositions : dataset[k] = outcome[p].record
        /\ \A p \in UsablePositions :
               Count(dataset, outcome[p].record)
                   = Cardinality({q \in UsablePositions : outcome[q] = outcome[p]})
        /\ \A p \in Positions :
               (\E k \in 1..Len(dataset) : dataset[k].pub_id = pm_ids[p])
                   <=> (\E q \in UsablePositions : pm_ids[q] = pm_ids[p])

\* A finished fetch phase with one identifier stored and the other, fetched with
\* a record that fails the filter, left out.
C1_Witness ==
    /\ FetchDone
    /\ Len(pm_ids) = 2
    /\ 1 \in UsablePositions
    /\ outcome[2].status = "Success"
    /\ 2 \notin UsablePositions
    /\ dataset = <<outcome[1].record>>

\* ------------------------------------------------------------------------ C2
\* C2: a fetch makes at most `retries` attempts and none after a success; it
\* has returned a record exactly when its last attempt succeeded (k failures
\* and then a success are k + 1 attempts, k < retries), and it has returned
\* Failure only after exactly `retries` attempts that all failed.
C2_RetryBudget ==
    \A p \in Positions :
        LET l  == attempts[p]
            st == outcome[p].status
        IN  /\ Len(l) <= retries
            /\ \A k \in 1..(Len(l) - 1) : l[k] = "error"
            /\ st = "Success" <=> (l # <<>> /\ l[Len(l)] = "ok")
            /\ st = "Failure" => (Len(l) = retries /\ l[Len(l)] = "error")
            /\ st # "pending" => st \in {"Success", "Failure"}
            /\ (Len(l) = retries /\ st = "pending") => ~ FetchDone

\* Attempts 0 and 1 failed and attempt 2 succeeded: Success after 3 attempts.
C2_Witness ==
    \E p \in Positions :
        /\ attempts[p] = <<"error", "error", "ok">>
        /\ outcome[p].status = "Success"

\* ------------------------------------------------------------------------ C3
\* C3: with one identifier per unit, an identifier that was fetched with a
\* record failing the usability filter (and was not also fetched with a
\* Failure) is never added to failed_ids.
C3_UnusableNotCountedAsFailure ==
    BATCH_SIZE = 1 =>
        \A p \in Positions :
            ( /\ outcome[p].status = "Success"
              /\ ~ PassesFilter(outcome[p].record)
              /\ \A q \in Positions :
                     pm_ids[q] = pm_ids[p] => outcome[q].status # "Failure" )
            => pm_ids[p] \notin Range(failed_ids)

\* ------------------------------------------------------------------------ C4
\* C4: for a non-empty identifier list with one identifier per unit, at the end
\* of the fetch phase the records in the dataset plus the units in failed_ids
\* are at least the input units, and every identifier was attempted.
C4_NoIdentifierDropped ==
    (BATCH_SIZE = 1 /\ FetchDone /\ pm_ids # <<>>) =>
        /\ Len(dataset) + Len(failed_ids) >= Len(batches)
        /\ \A p \in Positions : attempts[p] # <<>>

\* Two units, one stored and one recorded as failed.
C4_Witness ==
    /\ BATCH_SIZE = 1
    /\ FetchDone
    /\ Len(pm_ids) = 2
    /\ Len(dataset) = 1
    /\ Len(failed_ids) = 1

\* ------------------------------------------------------------------------ C5
\* C5: every unit is submitted once, gets one outcome and is consumed once by
\* the collecting loop, in that order; no fetch failure raises out of
\* process_all_ids; and the fetch phase ends only with every unit consumed.
C5_OneOutcomePerUnit ==
    /\ mainpc # "raised"
    /\ \A u \in Units :
           /\ ~ futures[u].raised
           /\ consumed[u] <= produced[u]
           /\ produced[u] <= submits[u]
           /\ submits[u] <= 1
    /\ mainpc \notin {"init", "submit"} => \A u \in Units : submits[u] = 1
    /\ FetchDone => \A u \in Units : produced[u] = 1 /\ consumed[u] = 1
    /\ pbar = Cardinality({u \in Units : consumed[u] = 1})

\* A unit whose fetch exhausted its retries next to a sibling whose record was
\* stored, both consumed.
C5_Witness ==
    /\ FetchDone
    /\ Len(batches) = 2
    /\ \E u, v \in Units :
           /\ \A i \in 1..Len(batches[u]) : outcome[PosOf(u, i)].status = "Failure"
           /\ \E i \in 1..Len(batches[v]) : outcome[PosOf(v, i)].record \in Range(dataset)
    /\ \A u \in Units : consumed[u] = 1

\* ------------------------------------------------------------------------ C6
\* C6: no error leaves fetch_article_data: an attempt that raised before the
\* budget was used up was followed by another attempt once the fetch has
\* returned, and an error on the last attempt made the fetch return Failure.
C6_FetchNeverRaises ==
    /\ \A u \in Units : ~ futures[u].raised
    /\ \A p \in Positions :
           /\ outcome[p].status # "Raised"
           /\ \A k \in 1..Len(attempts[p]) :
                  attempts[p][k] = "error" =>
                      IF k < retries
                      THEN outcome[p].status = "pending" \/ k < Len(attempts[p])
                      ELSE outcome[p].status = "Failure"

\* A normalization error on the last attempt, returned as Failure.
C6_Witness ==
    \E p \in Positions :
        /\ attempts[p] = <<"error", "error", "error">>
        /\ outcome[p] = Failure("normalize")

\* ------------------------------------------------------------------------ C7
\* C7: the delays slept while fetching an identifier are 3^0, 3^1, ... in this
\* order, one after each failed attempt that is not the last of the budget and
\* none after the last: Failure after three attempts has slept 1 and then 3.
C7_BackoffSchedule ==
    \A p \in Positions :
        LET errors == Cardinality({k \in 1..Len(attempts[p]) : attempts[p][k] = "error"})
        IN  /\ Len(sleeps[p]) = IF errors < retries THEN errors ELSE retries - 1
            /\ \A k \in 1..Len(sleeps[p]) : sleeps[p][k] = 3 ^ (k - 1)
            /\ outcome[p].status = "Failure" => sleeps[p] = <<1, 3>>

\* The delays before the 2nd and 3rd attempts were 1 and 3 and the 3rd failed.
C7_Witness ==
    \E p \in Positions :
        /\ sleeps[p] = <<1, 3>>
        /\ attempts[p] = <<"error", "error", "error">>
        /\ outcome[p].status = "Failure"

\* ------------------------------------------------------------------------ C8
\* C8: only the main thread appends to the dataset file and writes
\* failed_ids.txt, once per unit at most; when every identifier is distinct and
\* fetched with a usable record, the dataset ends with exactly one line per
\* identifier, each record once, whatever the order of completion.
C8_ConcurrentAppendsIntact ==
    /\ \A k \in 1..Len(writes) : writes[k][1] = "main"
    /\ \A u \in Units : Count(writes, <<"main", "dataset", u>>) <= 1
    /\ ( /\ FetchDone
         /\ \A p, q \in Positions : pm_ids[p] = pm_ids[q] => p = q
         /\ UsablePositions = Positions )
       => /\ Len(dataset) = Len(pm_ids)
          /\ \A p \in Positions : Count(dataset, outcome[p].record) = 1

\* Two usable records stored in the order opposite to submission.
C8_Witness ==
    /\ FetchDone
    /\ BATCH_SIZE = 1
    /\ Len(pm_ids) = 2
    /\ UsablePositions = Positions
    /\ dataset = <<outcome[2].record, outcome[1].record>>

\* ------------------------------------------------------------------------ C9
\* C9: with more than one identifier per unit, a unit with a Failure has all its
\* identifiers in failed_ids at the end of the fetch phase, and its usable
\* records are in the dataset all the same (stated for lists without
\* duplicates, where an identifier in failed_ids names one unit).
C9_PartialFailureMarksWholeUnit ==
    ( /\ FetchDone
      /\ BATCH_SIZE > 1
      /\ \A p, q \in Positions : pm_ids[p] = pm_ids[q] => p = q ) =>
        \A u \in Units :
            (\E i \in 1..Len(batches[u]) : outcome[PosOf(u, i)].status = "Failure")
            => /\ \A i \in 1..Len(batches[u]) : batches[u][i] \in Range(failed_ids)
               /\ \A i \in 1..Len(batches[u]) :
                      PosOf(u, i) \in UsablePositions
                          => outcome[PosOf(u, i)].record \in Range(dataset)

\* ----------------------------------------------------------------------- C10
\* C10: when a run has ended, failed_ids.txt was written (once, holding
\* failed_ids) if and only if failed_ids is not empty, also after a failed
\* export (stated for the shipped BATCH_SIZE of 1 and for runs whose failed_ids
\* hold only identifiers whose fetch returned Failure).
C10_FailedIdsPersisted ==
    ( /\ mainpc = "done"
      /\ BATCH_SIZE = 1
      /\ \A p \in Positions :
             pm_ids[p] \in Range(failed_ids) => outcome[p].status = "Failure" ) =>
        /\ failed_ids # <<>> <=> failed_file = <<failed_ids>>
        /\ Count(writes, <<"main", "failed_ids.txt", 0>>)
               = IF failed_ids # <<>> THEN 1 ELSE 0

\* The positions of the dataset whose record has, or has not, a pmc id or a
\* link word in its abstract.
WithPmc == {k \in 1..Len(dataset) : dataset[k].pmc_id \notin {None, ""}}
WithLink == {k \in 1..Len(dataset) :
                \E w \in Range(dataset[k].abstract) : w \in {"Github", "github", "avaliable"}}

\* The two lists hold every record of the dataset, each in one list only.
LinkPartition ==
    /\ Range(export.views.link_articles) = {dataset[k] : k \in WithLink}
    /\ Range(export.views.no_link_articles) =
           {dataset[k] : k \in (1..Len(dataset)) \ WithLink}
    /\ Len(export.views.link_articles) = Cardinality(WithLink)
    /\ Len(export.views.no_link_articles) = Len(dataset) - Cardinality(WithLink)

PmcPartition ==
    /\ Len(export.views.pmcids) = Cardinality(WithPmc)
    /\ \A k \in WithPmc : dataset[k].pmc_id \in Range(export.views.pmcids)
    /\ Range(export.views.no_pmcids) = {dataset[k] : k \in (1..Len(dataset)) \ WithPmc}
    /\ Len(export.views.no_pmcids) = Len(dataset) - Cardinality(WithPmc)

OneBlockPerRecord ==
    /\ Len(export.views.all_md) = Len(dataset)
    /\ \A k \in 1..Len(dataset) :
          /\ export.views.all_md[k][2] = dataset[k].pub_id
          /\ export.views.all_md[k][4] = dataset[k].abstract

\* C11 as stated: after a complete export every record of the dataset is in
\* exactly one of pmcids / no_pmcids and in exactly one of link_articles /
\* no_link_articles, and all_md has one block per record in dataset order.
C11_TwoPartitions ==
    export.status = "ok" => PmcPartition /\ LinkPartition /\ OneBlockPerRecord

\* C11, amended: the pmc partition and the rendering hold after every complete
\* export; link_articles and no_link_articles partition the dataset when
\* select_link is true, and both stay empty when it is false.
C11_TwoPartitionsWhenSelected ==
    export.status = "ok" =>
        /\ PmcPartition
        /\ OneBlockPerRecord
        /\ IF export.select_link
           THEN LinkPartition
           ELSE export.views.link_articles = <<>> /\ export.views.no_link_articles = <<>>

\* An export with select_link of two records on which the two partitions
\* disagree: one has a pmc id and no link word, the other the reverse.
C11_Witness ==
    /\ export.status = "ok"
    /\ export.select_link
    /\ \E j, k \in 1..Len(dataset) :
          /\ j \in WithPmc \ WithLink
          /\ k \in WithLink \ WithPmc

\* C12: no step of the export stage, whether generate_outputs completes or
\* raises at any of its statements, changes the lines of the dataset file.
C12_ExportLeavesDataset ==
    [][mainpc = "export" => dataset' = dataset]_vars

\* A non-empty dataset after an export that raised when some of its files
\* were already written.
C12_Witness ==
    /\ dataset # <<>>
    /\ export.status = "error"
    /\ export.files # <<>>

\* C13: after a write to the dataset file has failed the run goes on: the main
\* thread is still in its collecting loop or in a later stage, so that the
\* other outcomes are consumed and the export and the failure log follow.
C13_WriteErrorDoesNotAbort ==
    (\E k \in 1..Len(writes) : writes[k][2] = "dataset_error")
        => mainpc \in {"collect", "export", "save_failed", "done"}

\* The units a pool thread has taken and not yet finished, asleep or not.
Busy == {u \in Units : futures[u].state \in {"running", "sleeping"}}

\* C14: never more than MAX_WORKERS units are being fetched at once, a sleep
\* counting as being fetched; while fewer are busy a queued unit can be taken,
\* whoever sleeps; and a unit once taken stays with its thread, through its
\* sleeps, until it is finished.
C14_BoundedParallelism ==
    /\ [](Cardinality(Busy) <= MAX_WORKERS)
    /\ []((Cardinality(Busy) < MAX_WORKERS
            /\ \E u \in Units : futures[u].state = "pending")
           => ENABLED (\E u \in Units : StartBatch(u)))
    /\ [][\A u \in Busy : futures'[u].state \in {"running", "sleeping", "finished"}]_vars

\* Every thread of the pool is busy, one of them asleep, and a unit waits.
C14_Witness ==
    /\ Cardinality(Busy) = MAX_WORKERS
    /\ \E u \in Units : futures[u].state = "sleeping"
    /\ \E u \in Units : futures[u].state = "pending"

\* The configuration the claim calls missing or invalid: no usable file, or
\* one without search_keywords, email, mindate or maxdate.
ConfigRejected ==
    \/ crawl.config.file # "ok"
    \/ {"search_keywords", "email", "mindate", "maxdate"} \ crawl.config.keys # {}

\* C15: crawl.py with a rejected configuration issues no request, leaves
\* pubmed_ids.txt as it was and, once main() is over, has reported an error;
\* download.py with an unreadable input ends with the error of open and has
\* submitted nothing and touched no file.
C15_NoPartialWorkAndReport ==
    /\ (crawl.pc # "off" /\ ConfigRejected) =>
          /\ crawl.requests = 0
          /\ crawl.ids_file \in {<<>>, OldIdsFile}
          /\ crawl.pc \in {"returned", "raised", "done"} => crawl.reported
    /\ mainpc = "input_error" =>
          /\ dataset \in {<<>>, <<StaleRecord>>}
          /\ writes = <<>>
          /\ export.status = "none"
          /\ \A u \in Units : submits[u] = 0

\* C16: a further call of generate_outputs on the same dataset with the same
\* select_link leaves in every output file what the call before left: the
\* result is fixed by the dataset and select_link, whatever the files held.
C16_ExportDeterministic ==
    [][(/\ export.status = "ok"
        /\ Len(writes') > Len(writes)
        /\ writes'[Len(writes')][2] = "outputs"
        /\ export'.select_link = export.select_link
        /\ dataset' = dataset)
       => export' = export]_vars

\* generate_outputs has been called a second time, with select_link, on a
\* dataset of two records.
C16_Witness ==
    /\ \E k \in 1..Len(writes) : writes[k][2] = "outputs"
    /\ export.status = "ok"
    /\ export.select_link
    /\ Len(dataset) = 2

\* generate_outputs has been called, or is the next statement.
ExportBegun == mainpc \in {"export", "save_failed", "done"} \/ export.status # "none"

\* C17: when the export begins every submitted unit has finished, its outcome
\* has been taken by the collecting loop and its records are in the dataset
\* file or its identifiers in failed_ids; from then on no line is appended to
\* the dataset and nothing is added to failed_ids.
C17_ExportAfterFetchPhase ==
    /\ [](ExportBegun =>
            /\ pbar = Cardinality(Units)
            /\ \A u \in Units :
                  /\ submits[u] = 1
                  /\ futures[u].state = "finished"
                  /\ consumed[u] = 1
                  /\ \A r \in Range(futures[u].results) : r \in Range(dataset)
                  /\ futures[u].results = <<>> =>
                        \A x \in Range(batches[u]) : x \in Range(failed_ids))
    /\ [][ExportBegun => dataset' = dataset /\ failed_ids' = failed_ids]_vars

\* The export is about to start after a fetch phase of two units, one whose
\* record was appended and one whose identifier went to failed_ids.
C17_Witness ==
    /\ mainpc = "export"
    /\ \E u, v \in Units : futures[u].results # <<>> /\ futures[v].results = <<>>

\* The records of the units whose results were written, in the order of the
\* writes noted in ws.
RECURSIVE WrittenRecords(_)
WrittenRecords(ws) ==
    IF ws = <<>> THEN <<>>
    ELSE IF Head(ws)[2] = "dataset"
    THEN futures[Head(ws)[3]].results \o WrittenRecords(Tail(ws))
    ELSE WrittenRecords(Tail(ws))

IsPrefix(s, t) == Len(s) <= Len(t) /\ SubSeq(t, 1, Len(s)) = s

\* C18: the dataset file is empty once the run has truncated it; from then on
\* it holds exactly the kept records of the units handled so far, in the order
\* they were handled, and every step only extends it: no line is removed or
\* rewritten.
C18_AppendOnlyDataset ==
    /\ [](mainpc = "submit" => dataset = <<>>)
    /\ [](mainpc # "init" =>
            /\ dataset = WrittenRecords(writes)
            /\ \A u \in Units :
                  (consumed[u] = 1 /\ futures[u].results # <<>> /\ ~ futures[u].raised)
                      <=> (\E k \in 1..Len(writes) : writes[k] = <<"main", "dataset", u>>))
    /\ [][mainpc # "init" => IsPrefix(dataset, dataset')]_vars

\* Two units have been handled one after the other and the file holds the
\* record of each.
C18_Witness ==
    /\ mainpc = "collect"
    /\ Len(dataset) = 2
    /\ \E j, k \in 1..Len(writes) : j # k /\ writes[j][2] = "dataset" /\ writes[k][2] = "dataset"

\* The positions of pm_ids that belong to batch u.
PositionsOf(u) == {p \in Positions : (p - 1) \div BATCH_SIZE + 1 = u}

\* The units handled by the collecting loop that yielded no usable record.
EmptyUnits ==
    {u \in Units : consumed[u] = 1 /\ PositionsOf(u) \cap UsablePositions = {}}

\* C19: a unit handled by the collecting loop that yielded no usable record has
\* added every identifier of its batch to failed_ids and has written nothing; a
\* unit that yielded at least one has written once and has added nothing; so
\* failed_ids holds the identifiers of the units without usable record, each as
\* often as it stands in those batches, and no other.
C19_FailedIffNoUsableRecord ==
    LET empty == EmptyUnits
        failedPositions == UNION {PositionsOf(u) : u \in empty}
    IN  /\ \A u \in Units : consumed[u] = 1 =>
              (u \in empty <=> Count(writes, <<"main", "dataset", u>>) = 0)
        /\ \A u \in Units : Count(writes, <<"main", "dataset", u>>) <= 1
        /\ Len(failed_ids) = Cardinality(failedPositions)
        /\ \A x \in Range(failed_ids) :
              Count(failed_ids, x) = Cardinality({p \in failedPositions : pm_ids[p] = x})

\* A batch of two identifiers without usable record has been handled: one was
\* fetched but filtered out, the other exhausted its attempts.
C19_Witness ==
    /\ BATCH_SIZE = 2
    /\ \E u \in EmptyUnits :
          /\ Len(batches[u]) = 2
          /\ failed_ids = batches[u]
          /\ \E p, q \in PositionsOf(u) :
                outcome[p].status = "Success" /\ outcome[q].status = "Failure"

\* C20: under fair scheduling, every attempt returning or raising, the run
\* gets through every unit and reaches the export: the progress count equals
\* the number of units, every future is finished and was handled, and no fetch
\* took more than retries attempts or more than retries - 1 sleeps.
C20_RunReachesExport ==
    <>(/\ FetchDone
       /\ pbar = Len(batches)
       /\ \A u \in Units : futures[u].state = "finished" /\ consumed[u] = 1
       /\ \A p \in Positions :
             Len(attempts[p]) \in 1..retries /\ Len(sleeps[p]) <= retries - 1)

\* The export is reached after a fetch that used all its attempts and sleeps.
C20_Witness ==
    /\ mainpc = "export"
    /\ pbar = Len(batches)
    /\ Len(batches) = 2
    /\ \E p \in Positions : Len(attempts[p]) = retries /\ Len(sleeps[p]) = retries - 1

====
